---------------------------- MODULE Spec2Model ----------------------------
(* A model of mutation_motif/mutation_analysis.py: the nbr command          *)
(* (nbr -> single_group -> get_position_effects and the figure builders)    *)
(* and the pure helpers it is built from (combinations, the trellis layout  *)
(* of get_resized_array_coordinates2, get_selected_indices).                *)
(*                                                                          *)
(* Conventions.  Python's None is the string "None".  A position label      *)
(* 'pos<n>' is the number n.  A position set is always a tuple (an order-1  *)
(* key, a bare label in the code, is the 1-tuple of that label).  The empty *)
(* cell of a numpy object array (the 0 of numpy.zeros) is the empty tuple.  *)
EXTENDS Integers, Sequences, FiniteSets, TLC

VARIABLES
    pc,             \* position of the nbr command / of the library call
    args,           \* the command line of nbr (click options)
    table,          \* what the counts file holds
    group_label,    \* nbr's local group_label (normalised, then passed on)
    group_ref,      \* nbr's local group_ref
    positions,      \* nbr's local positions
    counts_table,   \* nbr's local counts_table (after the two files are merged)
    outdir,         \* util.makedirs(outpath) has run
    log_file_path,  \* LOGGER.log_file_path
    files,          \* names of the files written under outpath
    summary,        \* single_group's summary list
    max_results,    \* single_group's max_results dict
    results,        \* the result mapping of the order being analysed
    order,          \* the order k single_group is working on
    fit_calls,      \* position sets handed to log_lin.position_effect
    chisq_calls,    \* (deviance, df) pairs handed to chisqprob
    events,         \* what single_group has done so far, in order
    fig,            \* the locals of the figure builder that is running
    call            \* a direct call of a library function: arguments, result

vars == <<pc, args, table, group_label, group_ref, positions, counts_table,
          outdir, log_file_path, files, summary, max_results, results, order,
          fit_calls, chisq_calls, events, fig, call>>

None == "None"

---------------------------------------------------------------------------
(* Bounds of the model.                                                    *)

\* most columns named pos* a counts table has
MaxPos == 5
\* most distinct values the group column of a counts table has
MaxGroupVals == 3
\* the counts tables differ in what the external fit returns: 0..MaxSeed
MaxSeed == 1
\* most rows of a statistics table handed to get_selected_indices directly
MaxRows == 3
\* most positions handed to the layout functions directly
MaxLayoutPos == 4
\* most positions handed to get_resized_array_coordinates3 directly
MaxCubePos == 5
\* most rows, columns and cells of a matrix handed to as_freq_matrix, and
\* the largest pseudocount
MaxObs == 3
MaxCols == 2
MaxCells == 4
MaxPseudo == 2

---------------------------------------------------------------------------
(* Helpers.                                                                *)

Range(s) == { s[i] : i \in DOMAIN s }

Max(S) == CHOOSE x \in S : \A y \in S : y <= x

RECURSIVE Pow(_, _)
Pow(b, e) == IF e = 0 THEN 1 ELSE b * Pow(b, e - 1)

\* the list [x] * n
RECURSIVE Repeat(_, _)
Repeat(x, n) == IF n = 0 THEN <<>> ELSE Append(Repeat(x, n - 1), x)

\* Python truthiness of an optional string
Truthy(x) == x # None /\ x # ""

\* x or y
Or(x, y) == IF Truthy(x) THEN x ELSE y

\* list.index: 0-based index of the first occurrence
Index(seq, x) == (CHOOSE i \in DOMAIN seq : seq[i] = x /\ \A j \in 1..(i - 1) : seq[j] # x) - 1

\* itertools.combinations(seq, k) as a list
RECURSIVE combinations(_, _)
combinations(seq, k) ==
    IF k = 0 THEN << <<>> >>
    ELSE IF Len(seq) < k THEN <<>>
    ELSE LET rest == combinations(Tail(seq), k - 1)
         IN  [i \in 1..Len(rest) |-> <<Head(seq)>> \o rest[i]] \o combinations(Tail(seq), k)

\* (a slip: itertools.combinations_with_replacement for combinations)
RECURSIVE combinations_with_replacement(_, _)
combinations_with_replacement(seq, k) ==
    IF k = 0 THEN << <<>> >>
    ELSE IF seq = <<>> THEN <<>>
    ELSE LET rest == combinations_with_replacement(seq, k - 1)
         IN  [i \in 1..Len(rest) |-> <<Head(seq)>> \o rest[i]]
                \o combinations_with_replacement(Tail(seq), k)

\* the position sets of order k: the positions themselves at k = 1
PositionSets(pos, k) == combinations(pos, k)

---------------------------------------------------------------------------
(* get_selected_indices (lines 57-68).  stats is a sequence of rows        *)
(* [mut, grp], grp being the row's value in the column named group_label;  *)
(* the result is the boolean mask, one entry per row.                      *)

\* (a slip: the explicit reference value is not used)
get_selected_indices_noref(stats, label, ref) ==
    IF Truthy(label)
    THEN LET val == IF label = "strand" THEN "+" ELSE "1"
         IN  [i \in DOMAIN stats |-> stats[i].mut = "M" /\ stats[i].grp = val]
    ELSE [i \in DOMAIN stats |-> stats[i].mut = "M"]

get_selected_indices(stats, label, ref) ==
    IF Truthy(label) /\ ref = None
    THEN LET val == IF label = "strand" THEN "+" ELSE "1"
         IN  [i \in DOMAIN stats |-> stats[i].mut = "M" /\ stats[i].grp = val]
    ELSE IF Truthy(label) /\ Truthy(ref)
    THEN [i \in DOMAIN stats |-> stats[i].mut = "M" /\ stats[i].grp = ref]
    ELSE [i \in DOMAIN stats |-> stats[i].mut = "M"]

---------------------------------------------------------------------------
(* get_resized_array_coordinates2 (lines 162-181).  Arrays are sequences   *)
(* of rows, 1-based here; the coordinates handed out are 0-based as in the *)
(* code.                                                                   *)

Empty == <<>>

\* numpy.zeros((num_pos, num_pos), object)
Zeros2(num_pos) == Repeat(Repeat(Empty, num_pos), num_pos)

\* (a slip: indices.reverse() is left out)
ReversedIndices_forward(pos, motif) == [i \in 1..Len(motif) |-> Index(pos, motif[i])]

\* lines 169-170: indices of the members, reversed
ReversedIndices(pos, motif) == [i \in 1..Len(motif) |-> Index(pos, motif[Len(motif) + 1 - i])]

\* lines 168-171: the motifs written into the array, in the order given
RECURSIVE Fill2(_, _, _)
Fill2(a, pos, motifs) ==
    IF motifs = <<>> THEN a
    ELSE LET indices == ReversedIndices(pos, Head(motifs))
         IN  Fill2([a EXCEPT ![indices[1] + 1][indices[2] + 1] = Head(motifs)], pos, Tail(motifs))

\* (row != 0).any()
AnyCell(row) == \E c \in DOMAIN row : row[c] # Empty

\* (a slip: the rows are not compacted)
DropEmptyRows_kept(a) == a

\* line 173: a[(a != 0).any(axis=1)]
DropEmptyRows(a) == SelectSeq(a, AnyCell)

\* the columns of a row named by keep
PickCols(row, keep) == [j \in 1..Len(keep) |-> row[keep[j]]]

\* (new != 0).any(axis=0)[c]
AnyInCol(new, c) == \E r \in DOMAIN new : new[r][c] # Empty

\* line 175: new[:, (new != 0).any(axis=0)]
DropEmptyCols(new) ==
    LET ncol == IF new = <<>> THEN 0 ELSE Len(new[1])
        keep == SelectSeq([c \in 1..ncol |-> c], LAMBDA c : AnyInCol(new, c))
    IN  [r \in DOMAIN new |-> PickCols(new[r], keep)]

\* lines 176-180: the cells 1..n of new, numbered row by row, read into the
\* dict; a later cell overwrites an earlier one with the same key
RECURSIVE CellLoop(_, _, _, _)
CellLoop(new, ncol, n, mapping) ==
    IF n = 0 THEN mapping
    ELSE LET prev == CellLoop(new, ncol, n - 1, mapping)
             i    == (n - 1) \div ncol
             j    == (n - 1) % ncol
             cell == new[i + 1][j + 1]
         IN  IF cell # Empty THEN (cell :> <<i, j>>) @@ prev ELSE prev

CellMapping(new) ==
    LET nrow == Len(new)
        ncol == IF new = <<>> THEN 0 ELSE Len(new[1])
    IN  CellLoop(new, ncol, nrow * ncol, <<>>)

get_resized_array_coordinates2(pos, motifs) ==
    CellMapping(DropEmptyCols(DropEmptyRows(Fill2(Zeros2(Len(pos)), pos, motifs))))

---------------------------------------------------------------------------
(* The index adjustment of the figure builders (lines 125-133, 213-230,    *)
(* 309-330, 378-391).                                                      *)

\* num_pos // 2 with num_pos = len(positions) + 1
MidPos(pos) == (Len(pos) + 1) \div 2

\* (a slip: > for >=)
AdjustIndex_gt(index, mid) == IF index > mid THEN index + 1 ELSE index

\* if index >= mid: index += 1
AdjustIndex(index, mid) == IF index >= mid THEN index + 1 ELSE index

\* the adjusted indices of a position set: list(map(positions.index, motif)),
\* each member then adjusted
AdjustedIndices(pos, motif) == [i \in DOMAIN motif |-> AdjustIndex(Index(pos, motif[i]), MidPos(pos))]

---------------------------------------------------------------------------
(* The counts table and the external collaborators.  A counts table is     *)
(* known here by its header (npos columns named pos*, at most one group    *)
(* column gcol), the distinct values gvals of that column, and seed, which *)
(* stands for the counts and so decides what the external fit returns.     *)

GroupValues == {"+", "-", "1"}

\* a fixed order of the group values, to list the rows of a statistics table
GroupOrder == <<"+", "-", "1", "2">>

Tables ==
    { [npos |-> n, gcol |-> None, gvals |-> {}, seed |-> s] : n \in 0..MaxPos, s \in 0..MaxSeed }
    \cup { [npos |-> n, gcol |-> c, gvals |-> g, seed |-> s] :
             n \in 0..MaxPos, c \in {"strand", "group"},
             g \in { x \in SUBSET GroupValues : Cardinality(x) \in 1..MaxGroupVals },
             s \in 0..MaxSeed }

Args ==
    [dry_run : BOOLEAN, first_order : BOOLEAN, strand_symmetry : BOOLEAN,
     countsfile2 : BOOLEAN, group_label : {None, "strand", "group"},
     group_ref : {None, "", "+", "1"}]

RECURSIVE SumSeq(_)
SumSeq(s) == IF s = <<>> THEN 0 ELSE Head(s) + SumSeq(Tail(s))

RECURSIVE MotifCode(_)
MotifCode(m) == IF m = <<>> THEN 0 ELSE Pow(2, Head(m) - 1) + MotifCode(Tail(m))

\* the per-base statistics table of a fit, one row standing for the 4^k rows
\* (one per base tuple) of a (mut, group value) class
StatsRows(tbl, label) ==
    IF label = None
    THEN << [mut |-> "M", grp |-> None], [mut |-> "W", grp |-> None] >>
    ELSE LET gs == SelectSeq(GroupOrder, LAMBDA g : g \in tbl.gvals)
         IN  [i \in 1..(2 * Len(gs)) |->
                [mut |-> IF i % 2 = 1 THEN "M" ELSE "W", grp |-> gs[(i + 1) \div 2]]]

\* log_lin.position_effect on the combined counts of a position set (lines
\* 97-103): external, a function of the counts.  The deviance may be
\* negative; the relative entropy differs from one position set to another.
position_effect(tbl, label, position_set) ==
    [rel_entropy |-> MotifCode(position_set) + tbl.seed,
     deviance    |-> ((SumSeq(position_set) + tbl.seed) % 3) - 1,
     df          |-> Pow(3, Len(position_set)),
     stats       |-> StatsRows(tbl, label),
     formula     |-> "formula"]

\* cogent3.maths.stats.chisqprob: external, kept symbolic
chisqprob(deviance, df) == <<"chisqprob", deviance, df>>

\* the float 1.0 stored for a negative deviance
One == <<"1.0">>

---------------------------------------------------------------------------
(* get_position_effects (lines 90-112) and make_summary (lines 39-54).     *)

\* (a slip: the guard on the sign of the deviance is missing)
Prob_unguarded(deviance, df) ==
    [p |-> chisqprob(deviance, df), chisq |-> << <<deviance, df>> >>]

\* lines 104-107: the p-value stored, and the call of chisqprob made for it
Prob(deviance, df) ==
    IF deviance < 0
    THEN [p |-> One, chisq |-> <<>>]
    ELSE [p |-> chisqprob(deviance, df), chisq |-> << <<deviance, df>> >>]

\* (a slip: two or more values pass the check)
GroupCheck_atleast(tbl, label) ==
    IF label = None THEN "ok"
    ELSE IF tbl.gcol # label THEN "KeyError_column"
    ELSE IF Cardinality(tbl.gvals) >= 2 THEN "ok"
    ELSE "AssertionError_groups"

\* lines 92-94: the check made of a grouped table; the lookup of a column
\* the table does not have fails
GroupCheck(tbl, label) ==
    IF label = None THEN "ok"
    ELSE IF tbl.gcol # label THEN "KeyError_column"
    ELSE IF Cardinality(tbl.gvals) = 2 THEN "ok"
    ELSE "AssertionError_groups"

\* lines 96-111: the loop over position_sets.  acc holds pos_results and the
\* calls made of the external fit and of chisqprob so far
RECURSIVE EffectsLoop(_, _, _, _)
EffectsLoop(tbl, label, position_sets, acc) ==
    IF position_sets = <<>> THEN acc
    ELSE LET ps  == Head(position_sets)
             r   == position_effect(tbl, label, ps)
             pr  == Prob(r.deviance, r.df)
             ent == [rel_entropy |-> r.rel_entropy, deviance |-> r.deviance, df |-> r.df,
                     stats |-> r.stats, formula |-> r.formula, prob |-> pr.p]
         IN  EffectsLoop(tbl, label, Tail(position_sets),
                         [pos_results |-> (ps :> ent) @@ acc.pos_results,
                          fit         |-> Append(acc.fit, ps),
                          chisq       |-> acc.chisq \o pr.chisq])

\* lines 90-112: what a call raises ("ok" when it returns), the mapping it
\* returns, and the external calls it made
get_position_effects(tbl, position_sets, label) ==
    LET chk   == GroupCheck(tbl, label)
        empty == [pos_results |-> <<>>, fit |-> <<>>, chisq |-> <<>>]
        acc   == IF chk = "ok" THEN EffectsLoop(tbl, label, position_sets, empty) ELSE empty
    IN  [raised |-> chk, pos_results |-> acc.pos_results, fit |-> acc.fit, chisq |-> acc.chisq]

\* make_summary: one row per key of results, in insertion order, which is
\* the order of position_sets
make_summary(res, position_sets) ==
    [i \in DOMAIN position_sets |->
        [position |-> position_sets[i],
         re       |-> res[position_sets[i]].rel_entropy,
         dev      |-> res[position_sets[i]].deviance,
         df       |-> res[position_sets[i]].df,
         prob     |-> res[position_sets[i]].prob,
         formula  |-> res[position_sets[i]].formula]]

---------------------------------------------------------------------------
(* get_resized_array_coordinates3 (lines 256-276).                         *)

\* comparison of two tuples as Python compares them
RECURSIVE TupleLess(_, _)
TupleLess(x, y) ==
    IF x = <<>> THEN y # <<>>
    ELSE IF y = <<>> THEN FALSE
    ELSE IF Head(x) # Head(y) THEN Head(x) < Head(y)
    ELSE TupleLess(Tail(x), Tail(y))

\* lines 261-265: the cube, as a function of 0-based index triples
RECURSIVE Fill3(_, _, _)
Fill3(a, pos, triples) ==
    IF triples = <<>> THEN a
    ELSE LET indices == ReversedIndices(pos, Head(triples))
         IN  Fill3([a EXCEPT ![<<indices[1], indices[2], indices[3]>>] = Head(triples)], pos, Tail(triples))

\* line 267: a.flatten(), in C order
Flatten3(a, num_pos) ==
    [n \in 1..(num_pos * num_pos * num_pos) |->
        a[<<(n - 1) \div (num_pos * num_pos), ((n - 1) \div num_pos) % num_pos, (n - 1) % num_pos>>]]

\* lines 260-268: the non-empty entries of the flattened cube
Nonzero3(pos, triples) ==
    LET num_pos == Len(pos)
        idx     == (0..(num_pos - 1)) \X (0..(num_pos - 1)) \X (0..(num_pos - 1))
        a       == Fill3([t \in idx |-> Empty], pos, triples)
    IN  SelectSeq(Flatten3(a, num_pos), LAMBDA e : e # Empty)

\* (a slip: new.sort() is left out)
SortedEntries_unsorted(pos, triples) == Nonzero3(pos, triples)

\* lines 267-269: the non-empty entries of the flattened cube, sorted
SortedEntries(pos, triples) == SortSeq(Nonzero3(pos, triples), TupleLess)

\* (a slip: reshape((-1, 2)) for reshape((2, 2)))
get_resized_array_coordinates3_anyrows(pos, triples) ==
    LET new == SortedEntries(pos, triples)
    IN  IF Len(new) % 2 # 0 \/ Len(new) = 0
        THEN [raised |-> "ValueError_reshape", mapping |-> <<>>]
        ELSE [raised |-> "ok",
              mapping |-> CellMapping([r \in 1..(Len(new) \div 2) |-> <<new[2 * r - 1], new[2 * r]>>])]

\* lines 270-276: reshape((2, 2)) raises unless there are 4 entries; the
\* mapping is then read off row by row
get_resized_array_coordinates3(pos, triples) ==
    LET new == SortedEntries(pos, triples)
    IN  IF Len(new) # 4
        THEN [raised |-> "ValueError_reshape", mapping |-> <<>>]
        ELSE [raised |-> "ok",
              mapping |-> CellMapping(<< <<new[1], new[2]>>, <<new[3], new[4]>> >>)]

---------------------------------------------------------------------------
(* The nbr command (lines 658-736) and single_group (lines 418-604).       *)

JsonName == <<"1.json", "2.json", "3.json", "4.json">>
PdfName == <<"1.pdf", "2.pdf", "3.pdf", "4.pdf">>

\* (a slip: the write is not guarded)
Written_unguarded(dry_run, fs, name) == fs \cup {name}

\* (a slip: the write is dropped)
Written_dropped(dry_run, fs, name) == fs

\* every write is guarded by `if not dry_run:`
Written(dry_run, fs, name) == IF dry_run THEN fs ELSE fs \cup {name}

\* (a slip: the check is made in first-order mode too)
PositionsOk_always(first_order, pos) == Len(pos) = 4

\* line 687: the check made of the position columns
PositionsOk(first_order, pos) == first_order \/ Len(pos) = 4

\* lines 690-702: the group label and reference single_group is called with
GroupLabel(a) ==
    LET g0 == Or(a.group_label, None)
        g1 == IF a.strand_symmetry THEN "strand" ELSE g0
    IN  IF a.countsfile2 THEN Or(g1, "group") ELSE g1

GroupRef(a) ==
    LET r0 == Or(a.group_ref, None)
        r1 == IF a.strand_symmetry THEN Or(r0, "+") ELSE r0
    IN  IF a.countsfile2 THEN Or(r1, "1") ELSE r1

\* lines 703-719: the two tables, tagged '1' and '2' in the group column and
\* combined (the second file has the columns of the first)
Combined(tbl, label) == [tbl EXCEPT !.gcol = label, !.gvals = {"1", "2"}]

NoFig == [k |-> 0]

Init ==
    /\ pc = "start"
    /\ args \in Args
    /\ table \in Tables
    /\ group_label = None
    /\ group_ref = None
    /\ positions = <<>>
    /\ counts_table = None
    /\ outdir = FALSE
    /\ log_file_path = None
    /\ files = {}
    /\ summary = <<>>
    /\ max_results = <<>>
    /\ results = <<>>
    /\ order = 0
    /\ fit_calls = <<>>
    /\ chisq_calls = <<>>
    /\ events = <<>>
    /\ fig = NoFig
    /\ call = None

\* lines 667-678: the output directory and the run log
NbrSetup ==
    /\ pc = "start"
    /\ pc' = "load"
    /\ outdir' = (outdir \/ ~args.dry_run)
    /\ log_file_path' = IF args.dry_run THEN log_file_path ELSE "analysis.log"
    /\ files' = Written(args.dry_run, files, "analysis.log")
    /\ UNCHANGED <<args, table, group_label, group_ref, positions, counts_table, summary,
                   max_results, results, order, fit_calls, chisq_calls, events, fig, call>>

\* lines 680-688: the counts table is loaded, its position columns checked
NbrLoad ==
    /\ pc = "load"
    /\ counts_table' = table
    /\ positions' = [i \in 1..table.npos |-> i]
    /\ pc' = IF PositionsOk(args.first_order, positions') THEN "group" ELSE "ValueError_positions"
    /\ UNCHANGED <<args, table, group_label, group_ref, outdir, log_file_path, files, summary,
                   max_results, results, order, fit_calls, chisq_calls, events, fig, call>>

\* lines 690-735: the group options, the second counts file, and the call of
\* single_group
NbrGroup ==
    /\ pc = "group"
    /\ IF args.strand_symmetry /\ counts_table.gcol # "strand"
       THEN /\ pc' = "exit_no_strand"
            /\ group_label' = "strand"
            /\ group_ref' = Or(Or(args.group_ref, None), "+")
            /\ UNCHANGED <<counts_table, files, order>>
       ELSE /\ pc' = "analyse"
            /\ order' = 1
            /\ group_label' = GroupLabel(args)
            /\ group_ref' = GroupRef(args)
            /\ counts_table' = IF args.countsfile2 THEN Combined(counts_table, group_label') ELSE counts_table
            /\ files' = IF args.countsfile2
                        THEN Written(args.dry_run, files, "group_counts_table.txt")
                        ELSE files
    /\ UNCHANGED <<args, table, positions, outdir, log_file_path, summary, max_results,
                   results, fit_calls, chisq_calls, events, fig, call>>

\* lines 426-431, 473-477, 505-509, 537-541: the effects of the current
\* order, their summary rows and their maximum
Analyse ==
    /\ pc = "analyse"
    /\ LET sets == PositionSets(positions, order)
           r    == get_position_effects(counts_table, sets, group_label)
       IN  /\ fit_calls' = fit_calls \o r.fit
           /\ chisq_calls' = chisq_calls \o r.chisq
           /\ IF r.raised # "ok"
              THEN /\ pc' = r.raised
                   /\ UNCHANGED <<results, summary, max_results, events>>
              ELSE /\ results' = r.pos_results
                   /\ summary' = summary \o make_summary(r.pos_results, sets)
                   /\ events' = events \o << <<"effects", order>>, <<"summary", order>> >>
                   /\ IF sets = <<>>
                      THEN /\ pc' = "ValueError_max"
                           /\ UNCHANGED max_results
                      ELSE /\ pc' = "dump"
                           /\ max_results' = Append(max_results,
                                  Max({ r.pos_results[ps].rel_entropy : ps \in Range(sets) }))
    /\ UNCHANGED <<args, table, group_label, group_ref, positions, counts_table, outdir,
                   log_file_path, files, order, fig, call>>

\* lines 432-435, 478-481, 510-513, 542-545: the result dump
Dump ==
    /\ pc = "dump"
    /\ pc' = "fig_start"
    /\ files' = Written(args.dry_run, files, JsonName[order])
    /\ events' = IF files' # files THEN Append(events, <<"dump", order>>) ELSE events
    /\ UNCHANGED <<args, table, group_label, group_ref, positions, counts_table, outdir,
                   log_file_path, summary, max_results, results, order, fit_calls,
                   chisq_calls, fig, call>>

\* numpy.zeros((num_pos,)): slot i of the array is element i + 1 here
ZeroSlots(num_pos) == Repeat(0, num_pos)

\* the rows of rets in the figure builder of order k (lines 129, 222, 322,
\* 385)
RetsRows == <<4, 16, 64, 256>>

\* numpy.zeros((4^k, num_pos)): a column is Empty (all zero) or holds the
\* 'ret' values of the position set named
ZeroCols(num_pos) == Repeat(Empty, num_pos)

\* (a slip: range(i, ydim) for range(i + 1, ydim))
Blanked2_diagonal(xdim, ydim) == { <<i, j>> \in (0..(xdim - 2)) \X (0..(ydim - 1)) : j >= i }

\* lines 201-206: the panels get_two_position_fig blanks
Blanked2(xdim, ydim) == { <<i, j>> \in (0..(xdim - 2)) \X (0..(ydim - 1)) : j >= i + 1 }

\* lines 299-307: the panels get_three_position_fig blanks
Blanked3(xdim, ydim, coords) == ((0..(xdim - 1)) \X (0..(ydim - 1))) \ coords

\* the part of a figure builder before its loop (lines 125-130, 193-219,
\* 289-319, 368-385)
FigStart ==
    /\ pc = "fig_start"
    /\ LET sets    == PositionSets(positions, order)
           num_pos == Len(positions) + 1
           c3      == get_resized_array_coordinates3(positions, sets)
           ac      == IF order = 2 THEN get_resized_array_coordinates2(positions, sets)
                      ELSE IF order = 3 THEN c3.mapping
                      ELSE <<>>
           coords  == { ac[m] : m \in DOMAIN ac }
           raised  == IF order = 3 /\ c3.raised # "ok" THEN c3.raised
                      ELSE IF order \in {2, 3} /\ coords = {} THEN "ValueError_max"
                      ELSE IF order = 4 /\ Len(sets) # 1 THEN "AssertionError_sets"
                      ELSE "ok"
           xdim    == IF coords = {} THEN 1 ELSE Max({ c[1] : c \in coords }) + 1
           ydim    == IF coords = {} THEN 1 ELSE Max({ c[2] : c \in coords }) + 1
       IN  IF raised # "ok"
           THEN /\ pc' = raised
                /\ UNCHANGED fig
           ELSE /\ pc' = "fig_loop"
                /\ fig' = [k |-> order, position_sets |-> sets, i |-> 0,
                           array_coords |-> ac, xdim |-> xdim, ydim |-> ydim,
                           blanked |-> IF order = 2 THEN Blanked2(xdim, ydim)
                                       ELSE IF order = 3 THEN Blanked3(xdim, ydim, coords)
                                       ELSE {},
                           position_re |-> ZeroSlots(num_pos),
                           rets |-> ZeroCols(num_pos),
                           motif |-> <<>>,
                           indices |-> <<>>,
                           drawn |-> {},
                           heights |-> <<>>]
    /\ UNCHANGED <<args, table, group_label, group_ref, positions, counts_table, outdir,
                   log_file_path, files, summary, max_results, results, order, fit_calls,
                   chisq_calls, events, call>>

\* (a slip: only the first index is written)
Put_first(arr, indices, value) == [i \in DOMAIN arr |-> IF i - 1 = indices[1] THEN value ELSE arr[i]]

\* (a slip: every slot is written)
Put_fill(arr, indices, value) == [i \in DOMAIN arr |-> value]

\* numpy's put: value written at every index of indices
Put(arr, indices, value) == [i \in DOMAIN arr |-> IF (i - 1) \in Range(indices) THEN value ELSE arr[i]]

\* the rows of a statistics table a mask selects
NumSelected(mask) == Cardinality({ i \in DOMAIN mask : mask[i] })

\* one pass of the loop of a figure builder (lines 131-142, 221-252,
\* 321-354), or the body of get_four_position_fig (lines 386-413)
FigStep ==
    /\ pc = "fig_loop"
    /\ fig.i < Len(fig.position_sets)
    /\ LET motif   == fig.position_sets[fig.i + 1]
           indices == IF fig.k = 4
                      THEN [i \in 1..4 |-> AdjustIndex(i - 1, MidPos(positions))]
                      ELSE AdjustedIndices(positions, motif)
           re      == Put(fig.position_re, indices, results[motif].rel_entropy)
           mask    == get_selected_indices(results[motif].stats, group_label, group_ref)
           base    == IF fig.k = 1 THEN fig.rets ELSE ZeroCols(Len(positions) + 1)
           rets    == Put(base, indices, motif)
       IN  IF NumSelected(mask) # 1
           THEN \* the selected rows do not fill a column of rets
                /\ pc' = "ValueError_shape"
                /\ fig' = [fig EXCEPT !.motif = motif, !.indices = indices, !.position_re = re]
           ELSE /\ pc' = "fig_loop"
                /\ fig' = [fig EXCEPT !.i = fig.i + 1, !.motif = motif, !.indices = indices,
                                      !.position_re = re,
                                      !.rets = rets,
                                      !.drawn = IF fig.k \in {2, 3}
                                                THEN fig.drawn \cup {fig.array_coords[motif]}
                                                ELSE fig.drawn,
                                      !.heights = IF fig.k = 1 THEN fig.heights
                                                  ELSE Append(fig.heights,
                                                         [motif |-> motif, rets |-> rets, position_re |-> re,
                                                          shape |-> <<RetsRows[fig.k], Len(rets)>>])]
    /\ UNCHANGED <<args, table, group_label, group_ref, positions, counts_table, outdir,
                   log_file_path, files, summary, max_results, results, order, fit_calls,
                   chisq_calls, events, call>>

\* (a slip: first-order mode does not end the run)
AfterFig_nofirst(k, first_order) ==
    IF k < 4 THEN "analyse" ELSE "summary_plot"

\* where single_group goes once the figure of order k is saved (lines 460,
\* 472, 504, 536, 564)
AfterFig(k, first_order) ==
    IF k = 1 /\ first_order THEN "finish_first"
    ELSE IF k < 4 THEN "analyse"
    ELSE "summary_plot"

\* the end of a figure builder and the saving of the figure (lines 144-159
\* and 452-458, 489-502, 521-534, 550-562)
FigEnd ==
    /\ pc = "fig_loop"
    /\ fig.i = Len(fig.position_sets)
    /\ fig' = IF fig.k = 1
              THEN [fig EXCEPT !.heights = Append(fig.heights,
                        [motif |-> <<>>, rets |-> fig.rets, position_re |-> fig.position_re,
                         shape |-> <<RetsRows[fig.k], Len(fig.rets)>>])]
              ELSE fig
    /\ files' = Written(args.dry_run, files, PdfName[order])
    /\ events' = events \o << <<"fig", order>> >>
                        \o (IF files' # files THEN << <<"savefig", order>> >> ELSE <<>>)
    /\ pc' = AfterFig(order, args.first_order)
    /\ order' = IF pc' = "analyse" THEN order + 1 ELSE order
    /\ UNCHANGED <<args, table, group_label, group_ref, positions, counts_table, outdir,
                   log_file_path, summary, max_results, results, fit_calls, chisq_calls, call>>

\* lines 460-470: first-order mode ends with the summary table
FinishFirst ==
    /\ pc = "finish_first"
    /\ pc' = "done"
    /\ files' = Written(args.dry_run, files, "summary.txt")
    /\ UNCHANGED <<args, table, group_label, group_ref, positions, counts_table, outdir,
                   log_file_path, summary, max_results, results, order, fit_calls,
                   chisq_calls, events, fig, call>>

\* lines 564-591: the bar chart of the maximum relative entropy per order
SummaryPlot ==
    /\ pc = "summary_plot"
    /\ pc' = "summary_write"
    /\ files' = Written(args.dry_run, files, "summary.pdf")
    /\ UNCHANGED <<args, table, group_label, group_ref, positions, counts_table, outdir,
                   log_file_path, summary, max_results, results, order, fit_calls,
                   chisq_calls, events, fig, call>>

\* lines 593-604: the summary table
SummaryWrite ==
    /\ pc = "summary_write"
    /\ pc' = "done"
    /\ files' = Written(args.dry_run, files, "summary.txt")
    /\ UNCHANGED <<args, table, group_label, group_ref, positions, counts_table, outdir,
                   log_file_path, summary, max_results, results, order, fit_calls,
                   chisq_calls, events, fig, call>>

Next ==
    \/ NbrSetup
    \/ NbrLoad
    \/ NbrGroup
    \/ Analyse
    \/ Dump
    \/ FigStart
    \/ FigStep
    \/ FigEnd
    \/ FinishFirst
    \/ SummaryPlot
    \/ SummaryWrite

Spec == Init /\ [][Next]_vars

---------------------------------------------------------------------------
(* Direct calls of the library functions: the arguments are drawn from     *)
(* bounded sets, one action applies the function.                          *)

\* the variables of the nbr command, at rest
NbrIdle ==
    /\ args = None
    /\ table = None
    /\ group_label = None
    /\ group_ref = None
    /\ positions = <<>>
    /\ counts_table = None
    /\ outdir = FALSE
    /\ log_file_path = None
    /\ files = {}
    /\ summary = <<>>
    /\ max_results = <<>>
    /\ results = <<>>
    /\ order = 0
    /\ fit_calls = <<>>
    /\ chisq_calls = <<>>
    /\ events = <<>>
    /\ fig = NoFig

nbrVars == <<args, table, group_label, group_ref, positions, counts_table, outdir,
             log_file_path, files, summary, max_results, results, order, fit_calls,
             chisq_calls, events, fig>>

\* statistics tables of at most MaxRows rows
StatsTables ==
    UNION { [1..n -> [mut : {"M", "W"}, grp : GroupValues]] : n \in 0..MaxRows }

InitSelected ==
    /\ pc = "call"
    /\ call \in [fn : {"get_selected_indices"}, stats : StatsTables,
                 group_label : {None, "", "strand", "group"},
                 group_ref : {None, "+", "-", "1"}, ret : {<<>>}]
    /\ NbrIdle

CallSelected ==
    /\ pc = "call"
    /\ call.fn = "get_selected_indices"
    /\ call' = [call EXCEPT !.ret = get_selected_indices(call.stats, call.group_label, call.group_ref)]
    /\ pc' = "returned"
    /\ UNCHANGED nbrVars

SpecSelected == InitSelected /\ [][CallSelected]_vars

\* the lists of n distinct position labels 1..n, in any order
Orderings(n) == { p \in [1..n -> 1..n] : \A i, j \in 1..n : p[i] = p[j] => i = j }

PositionLists == UNION { Orderings(n) : n \in 2..MaxLayoutPos }

\* the members of seq at the indices in S, in order
RECURSIVE Pick(_, _)
Pick(seq, S) ==
    IF seq = <<>> THEN <<>>
    ELSE Pick(SubSeq(seq, 1, Len(seq) - 1), S)
         \o (IF Len(seq) \in S THEN <<seq[Len(seq)]>> ELSE <<>>)

\* the non-empty sublists of a list
SubLists(seq) == { Pick(seq, S) : S \in (SUBSET (1..Len(seq))) \ {{}} }

InitLayout ==
    /\ pc = "call"
    /\ call \in { [fn |-> "get_resized_array_coordinates2", positions |-> p, motifs |-> m, ret |-> <<>>] :
                    <<p, m>> \in UNION { {p} \X SubLists(combinations(p, 2)) : p \in PositionLists } }
    /\ NbrIdle

CallCoordinates2 ==
    /\ pc = "call"
    /\ call.fn = "get_resized_array_coordinates2"
    /\ call' = [call EXCEPT !.ret = get_resized_array_coordinates2(call.positions, call.motifs)]
    /\ pc' = "returned"
    /\ UNCHANGED nbrVars

SpecLayout == InitLayout /\ [][CallCoordinates2]_vars

\* the lists made of distinct members of seq, in any order
Arrangements(seq) ==
    UNION { { [i \in 1..k |-> seq[f[i]]] :
                f \in { g \in [1..k -> 1..Len(seq)] : \A i, j \in 1..k : g[i] = g[j] => i = j } } :
            k \in 0..Len(seq) }

\* the lists of triples handed over with a position list: of up to 4
\* positions, any triples in any order; of more, the first n triples
TripleLists(p) ==
    IF Len(p) <= 4 THEN Arrangements(combinations(p, 3))
    ELSE { SubSeq(combinations(p, 3), 1, n) : n \in 0..Len(combinations(p, 3)) }

InitCube ==
    /\ pc = "call"
    /\ call \in { [fn |-> "get_resized_array_coordinates3", positions |-> c[1], position_set |-> c[2],
                    ret |-> [raised |-> None, mapping |-> <<>>]] :
                    c \in UNION { {p} \X TripleLists(p) :
                                    p \in UNION { Orderings(n) : n \in 3..MaxCubePos } } }
    /\ NbrIdle

CallCoordinates3 ==
    /\ pc = "call"
    /\ call.fn = "get_resized_array_coordinates3"
    /\ call' = [call EXCEPT !.ret = get_resized_array_coordinates3(call.positions, call.position_set)]
    /\ pc' = IF call'.ret.raised = "ok" THEN "returned" ELSE call'.ret.raised
    /\ UNCHANGED nbrVars

SpecCube == InitCube /\ [][CallCoordinates3]_vars

---------------------------------------------------------------------------
(* entropy.py: as_freq_matrix (lines 33-48).  A matrix of base observations *)
(* is its shape and its rows; a float quotient x / d is the pair of x and   *)
(* d, which numpy evaluates to nan or inf, without raising, when d = 0.     *)

\* line 41: (data == i).sum(axis=0) + pseudocount, at column c
BaseCount(data, i, c, pseudocount) ==
    Cardinality({ r \in 1..data.shape[1] : data.rows[r][c] = i }) + pseudocount

\* numpy's true division of floats
Quotient(x, d) == [num |-> x, den |-> d]

\* (a slip: the divisor counts the pseudocount once)
as_freq_matrix_once(data, pseudocount) ==
    LET total == data.shape[1]
    IN  [i \in 0..3 |-> [c \in 1..data.shape[2] |->
            Quotient(BaseCount(data, i, c, pseudocount), total + pseudocount)]]

\* lines 33-48 (check_valid left at its default)
as_freq_matrix(data, pseudocount) ==
    LET total       == data.shape[1]
        base_counts == [i \in 0..3 |-> [c \in 1..data.shape[2] |-> BaseCount(data, i, c, pseudocount)]]
    IN  [i \in 0..3 |-> [c \in 1..data.shape[2] |->
            Quotient(base_counts[i][c], total + pseudocount * 4)]]

\* the matrices of bases recoded to 0..3, of N rows and P columns
Matrices ==
    UNION { { [shape |-> <<N, P>>, rows |-> rows] : rows \in [1..N -> [1..P -> 0..3]] } :
            <<N, P>> \in { sh \in (0..MaxObs) \X (0..MaxCols) : sh[1] * sh[2] <= MaxCells } }

InitFreq ==
    /\ pc = "call"
    /\ call \in [fn : {"as_freq_matrix"}, data : Matrices, pseudocount : 0..MaxPseudo, ret : {<<>>}]
    /\ NbrIdle

CallFreq ==
    /\ pc = "call"
    /\ call.fn = "as_freq_matrix"
    /\ call' = [call EXCEPT !.ret = as_freq_matrix(call.data, call.pseudocount)]
    /\ pc' = "returned"
    /\ UNCHANGED nbrVars

SpecFreq == InitFreq /\ [][CallFreq]_vars

---------------------------------------------------------------------------
(* Properties.                                                             *)

\* the coordinates a mapping hands out
Coords(mapping) == { mapping[m] : m \in DOMAIN mapping }

Returned2 == pc = "returned" /\ call.fn = "get_resized_array_coordinates2"

\* the call the claim is about: 4 positions and all 6 pairs
FullCall4 ==
    /\ Returned2
    /\ Len(call.positions) = 4
    /\ call.motifs = combinations(call.positions, 2)

(* C1: given 4 positions and all 6 pairs of them,                          *)
(* get_resized_array_coordinates2 returns a mapping defined on exactly the *)
(* 6 pairs, no two pairs share a coordinate, the coordinates are 0-based,  *)
(* and every row 0..max_row and every column 0..max_col of the compacted   *)
(* grid holds at least one pair.                                           *)
C1_Coordinates2Bijection ==
    FullCall4 =>
        LET mapping == call.ret
            coords  == Coords(mapping)
            max_row == Max({ c[1] : c \in coords })
            max_col == Max({ c[2] : c \in coords })
        IN  /\ Len(call.motifs) = 6
            /\ DOMAIN mapping = Range(call.motifs)
            /\ \A m1, m2 \in DOMAIN mapping : mapping[m1] = mapping[m2] => m1 = m2
            /\ Cardinality(coords) = 6
            /\ \A c \in coords : c[1] >= 0 /\ c[2] >= 0
            /\ \A r \in 0..max_row : \E c \in coords : c[1] = r
            /\ \A k \in 0..max_col : \E c \in coords : c[2] = k

C1_Witness ==
    /\ FullCall4
    /\ call.positions = <<2, 4, 1, 3>>
    /\ Cardinality(DOMAIN call.ret) = 6
    /\ call.ret[<<2, 4>>] = <<0, 0>>
    /\ call.ret[<<1, 3>>] = <<2, 2>>

\* a figure builder has processed (or failed on) a position set
InFigLoop == pc \in {"fig_loop", "ValueError_shape"} /\ fig.k >= 1 /\ fig.motif # <<>>

(* C2: in the figure builders, with P positions and mid = (P+1)//2, the    *)
(* member with raw index i in the position list is used at i when i < mid  *)
(* and at i+1 when i >= mid; for P = 4 raw [0,3] becomes [0,4] and raw     *)
(* [1,2] becomes [1,3]; at every order the adjusted indices of a position  *)
(* set are distinct, lie in 0..P and never equal mid, and the focal slot   *)
(* of the per-position arrays is never written.                            *)
C2_IndexAdjustment ==
    InFigLoop =>
        LET P   == Len(positions)
            mid == (P + 1) \div 2
            raw == [j \in DOMAIN fig.motif |-> Index(positions, fig.motif[j])]
        IN  /\ Len(fig.indices) = fig.k
            /\ \A j \in DOMAIN fig.indices :
                 /\ raw[j] < mid => fig.indices[j] = raw[j]
                 /\ raw[j] >= mid => fig.indices[j] = raw[j] + 1
                 /\ fig.indices[j] \in 0..P
                 /\ fig.indices[j] # mid
            /\ \A i, j \in DOMAIN fig.indices : fig.indices[i] = fig.indices[j] => i = j
            /\ (P = 4 /\ raw = <<0, 3>>) => fig.indices = <<0, 4>>
            /\ (P = 4 /\ raw = <<1, 2>>) => fig.indices = <<1, 3>>
            /\ fig.position_re[mid + 1] = 0
            /\ fig.rets[mid + 1] = Empty

C2_Witness ==
    /\ InFigLoop
    /\ fig.k = 2
    /\ Len(positions) = 4
    /\ fig.motif = <<1, 4>>
    /\ fig.indices = <<0, 4>>
    /\ fig.position_re[5] # 0

ReturnedSelected == pc = "returned" /\ call.fn = "get_selected_indices"

\* a label or a reference value is given when it is neither None nor empty
Given(x) == x # None /\ x # ""

(* C3: get_selected_indices selects row r iff mut(r) = 'M' when no group   *)
(* label is given; iff mut(r) = 'M' and group(r) = reference when a label  *)
(* and a reference value are given; iff mut(r) = 'M' and group(r) =        *)
(* default when a label is given without a reference, the default being    *)
(* '+' for the label 'strand' and '1' for any other label.  Rows (M,+),    *)
(* (M,-), (W,+) give 2 selected rows without a label and 1 with the label  *)
(* 'strand' and no reference.                                              *)
C3_SelectedIndices ==
    ReturnedSelected =>
        LET default == IF call.group_label = "strand" THEN "+" ELSE "1"
            want(r) == IF ~Given(call.group_label) THEN r.mut = "M"
                       ELSE IF Given(call.group_ref) THEN r.mut = "M" /\ r.grp = call.group_ref
                       ELSE r.mut = "M" /\ r.grp = default
            example == << [mut |-> "M", grp |-> "+"], [mut |-> "M", grp |-> "-"], [mut |-> "W", grp |-> "+"] >>
        IN  /\ DOMAIN call.ret = DOMAIN call.stats
            /\ \A i \in DOMAIN call.stats : call.ret[i] = want(call.stats[i])
            /\ (call.stats = example /\ call.group_label = None) => NumSelected(call.ret) = 2
            /\ (call.stats = example /\ call.group_label = "strand" /\ call.group_ref = None)
                  => NumSelected(call.ret) = 1

C3_Witness ==
    /\ ReturnedSelected
    /\ call.group_label = "group"
    /\ call.group_ref = "-"
    /\ call.stats = << [mut |-> "M", grp |-> "-"], [mut |-> "M", grp |-> "1"], [mut |-> "W", grp |-> "-"] >>
    /\ call.ret = <<TRUE, FALSE, FALSE>>

\* the orders whose effects have been evaluated
Evaluated == Cardinality({ i \in DOMAIN events : events[i][1] = "effects" })

\* the part of the external-fit log that belongs to order k, over 4 positions
Offset4 == <<0, 4, 10, 14>>
Count4 == <<4, 6, 4, 1>>
Segment4(k) == SubSeq(fit_calls, Offset4[k] + 1, Offset4[k] + Count4[k])

\* what the external fit returned for a position set
Fit(ps) == position_effect(counts_table, group_label, ps)

\* the (deviance, df) pairs of the fits with a deviance that is not negative
RECURSIVE NonNegative(_)
NonNegative(calls) ==
    IF calls = <<>> THEN <<>>
    ELSE (IF Fit(Head(calls)).deviance >= 0
          THEN << <<Fit(Head(calls)).deviance, Fit(Head(calls)).df>> >>
          ELSE <<>>) \o NonNegative(Tail(calls))

\* the effects of the current order have been evaluated without an error
EffectsDone ==
    pc \in {"dump", "fig_start", "fig_loop", "finish_first", "summary_plot", "summary_write",
            "done", "ValueError_shape", "ValueError_reshape", "AssertionError_sets"}

(* C4: in get_position_effects a combination whose fit has deviance < 0    *)
(* is stored with the p-value 1.0 whatever its df and chisqprob is not     *)
(* called for it; with deviance >= 0 the p-value stored is chisqprob of    *)
(* (deviance, df); a negative deviance never stops the evaluation of the   *)
(* combinations that follow it.                                            *)
C4_NegativeDeviance ==
    /\ chisq_calls = NonNegative(fit_calls)
    /\ EffectsDone =>
         /\ DOMAIN results = Range(PositionSets(positions, order))
         /\ \A ps \in DOMAIN results :
              /\ results[ps].deviance = Fit(ps).deviance
              /\ results[ps].deviance < 0 => results[ps].prob = One
              /\ results[ps].deviance >= 0 =>
                   results[ps].prob = chisqprob(results[ps].deviance, results[ps].df)
              /\ results[ps].prob = One =>
                   <<results[ps].deviance, results[ps].df>> \notin Range(chisq_calls)
         /\ \A i \in DOMAIN summary :
              summary[i].prob = IF summary[i].dev < 0 THEN One
                                ELSE chisqprob(summary[i].dev, summary[i].df)

C4_Witness ==
    /\ EffectsDone
    /\ order = 2
    /\ Len(positions) = 4
    /\ results[<<1, 2>>].deviance < 0
    /\ results[<<1, 2>>].prob = One
    /\ results[<<3, 4>>].deviance >= 0
    /\ results[<<3, 4>>].prob = chisqprob(results[<<3, 4>>].deviance, 9)
    /\ Len(chisq_calls) < Len(fit_calls)

\* the indices in the position list of the members of a position set
IndexTuple(ps) == [j \in DOMAIN ps |-> Index(positions, ps[j])]

(* C5: over 4 positions the effect evaluators enumerate 4 position sets at *)
(* k = 1, 6 at k = 2, 4 at k = 3 and 1 at k = 4, in lexicographic order of *)
(* the members' indices in the position list; inside a tuple the indices   *)
(* increase strictly (input order kept, no position twice), no tuple       *)
(* appears twice, and the mapping get_position_effects returns has exactly *)
(* one entry per enumerated set.                                           *)
C5_Enumeration ==
    (EffectsDone /\ Len(positions) = 4) =>
        LET seg == Segment4(order)
        IN  /\ Len(fit_calls) = Offset4[order] + Count4[order]
            /\ Len(seg) = Count4[order]
            /\ \A i \in DOMAIN seg :
                 /\ Len(seg[i]) = order
                 /\ \A j \in 1..(order - 1) : IndexTuple(seg[i])[j] < IndexTuple(seg[i])[j + 1]
            /\ \A i \in 1..(Len(seg) - 1) : TupleLess(IndexTuple(seg[i]), IndexTuple(seg[i + 1]))
            /\ \A i, j \in DOMAIN seg : seg[i] = seg[j] => i = j
            /\ DOMAIN results = Range(seg)
            /\ Cardinality(DOMAIN results) = Count4[order]

C5_Witness ==
    /\ EffectsDone
    /\ Len(positions) = 4
    /\ order = 3
    /\ Segment4(2) = << <<1, 2>>, <<1, 3>>, <<1, 4>>, <<2, 3>>, <<2, 4>>, <<3, 4>> >>
    /\ Segment4(3) = << <<1, 2, 3>>, <<1, 2, 4>>, <<1, 3, 4>>, <<2, 3, 4>> >>
    /\ Cardinality(DOMAIN results) = 4

\* the evaluations, summaries and figures of a run, its writes left out
Computed(evs) == SelectSeq(evs, LAMBDA e : e[1] \in {"effects", "summary", "fig"})

RECURSIVE ComputedUpTo(_)
ComputedUpTo(k) ==
    IF k = 0 THEN <<>>
    ELSE ComputedUpTo(k - 1) \o << <<"effects", k>>, <<"summary", k>>, <<"fig", k>> >>

\* the position sets of the orders 1..k, in the order of their evaluation
RECURSIVE EnumeratedUpTo(_)
EnumeratedUpTo(k) ==
    IF k = 0 THEN <<>> ELSE EnumeratedUpTo(k - 1) \o combinations(positions, k)

LastOrder == IF args.first_order THEN 1 ELSE 4

OutputFiles ==
    {"group_counts_table.txt", "summary.pdf", "summary.txt"} \cup Range(JsonName) \cup Range(PdfName)

(* C6: in dry-run mode the nbr command writes nothing on any path: the     *)
(* output directory is not created, no log file path is set and none of    *)
(* group_counts_table.txt, 1.json..4.json, 1.pdf..4.pdf, summary.pdf,      *)
(* summary.txt is written; the effects of every order are still evaluated  *)
(* and every figure still built, as in a run that writes.                  *)
C6_DryRun ==
    /\ args.dry_run =>
         /\ ~outdir
         /\ log_file_path = None
         /\ files = {}
         /\ files \cap OutputFiles = {}
    /\ Computed(events) = SubSeq(ComputedUpTo(4), 1, Len(Computed(events)))
    /\ pc = "done" =>
         /\ Computed(events) = ComputedUpTo(LastOrder)
         /\ fit_calls = EnumeratedUpTo(LastOrder)
         /\ Len(summary) = Len(fit_calls)
         /\ Len(max_results) = LastOrder
         /\ fig.k = LastOrder
         /\ fig.i = Len(fig.position_sets)
         /\ fig.heights # <<>>

C6_Witness ==
    /\ args.dry_run
    /\ ~args.first_order
    /\ args.countsfile2
    /\ pc = "done"
    /\ files = {}
    /\ Len(fit_calls) = 15
    /\ Computed(events) = ComputedUpTo(4)

Rank(kind) ==
    CASE kind = "effects" -> 1
      [] kind = "summary" -> 2
      [] kind = "dump" -> 3
      [] kind = "fig" -> 4
      [] kind = "savefig" -> 5

\* the events of a run that writes, for the orders 1..k
RECURSIVE WrittenUpTo(_)
WrittenUpTo(k) ==
    IF k = 0 THEN <<>>
    ELSE WrittenUpTo(k - 1) \o << <<"effects", k>>, <<"summary", k>>, <<"dump", k>>,
                                  <<"fig", k>>, <<"savefig", k>> >>

HigherOrderFiles == {"2.json", "3.json", "4.json", "2.pdf", "3.pdf", "4.pdf", "summary.pdf"}

(* C7: single_group runs the orders k = 1, 2, 3, 4 in that order: the      *)
(* evaluation of order k, its summary rows, its dump and its figure all    *)
(* come before anything of order k + 1, so the summary holds the order-1   *)
(* rows, then the order-2 rows, order 3 and order 4, each block in         *)
(* enumeration order.  In first-order mode the run ends after order 1:     *)
(* nothing of order 2..4 is evaluated, the summary has order-1 rows only   *)
(* and no 2.json..4.json, 2.pdf..4.pdf or summary.pdf is written.          *)
C7_OrderSequence ==
    /\ \A i \in DOMAIN events : events[i][2] \in 1..4
    /\ events # <<>> => events[1] = <<"effects", 1>>
    /\ \A i \in 1..(Len(events) - 1) :
         \/ /\ events[i + 1][2] = events[i][2]
            /\ Rank(events[i][1]) < Rank(events[i + 1][1])
         \/ /\ events[i + 1][2] = events[i][2] + 1
            /\ events[i][1] \in {"fig", "savefig"}
            /\ events[i + 1][1] = "effects"
    /\ [i \in DOMAIN summary |-> summary[i].position] = EnumeratedUpTo(Evaluated)
    /\ \A i \in 1..(Len(summary) - 1) : Len(summary[i].position) <= Len(summary[i + 1].position)
    /\ (pc = "done" /\ ~args.dry_run) => events = WrittenUpTo(LastOrder)
    /\ args.first_order =>
         /\ order <= 1
         /\ Evaluated <= 1
         /\ \A i \in DOMAIN fit_calls : Len(fit_calls[i]) = 1
         /\ \A i \in DOMAIN summary : Len(summary[i].position) = 1
         /\ files \cap HigherOrderFiles = {}

C7_Witness ==
    /\ pc = "done"
    /\ ~args.first_order
    /\ ~args.dry_run
    /\ events = WrittenUpTo(4)
    /\ Len(summary) = 15
    /\ summary[4].position = <<4>>
    /\ summary[5].position = <<1, 2>>
    /\ summary[15].position = <<1, 2, 3, 4>>

\* the ends of a run the configuration errors lead to
ConfigurationError == {"ValueError_positions", "exit_no_strand", "AssertionError_groups"}

(* C8, as stated: when a run of nbr that writes ends with a configuration  *)
(* error, nothing has been written: no output directory, no log file, no   *)
(* counts table, no result dump and no figure.                             *)
C8_NothingWritten ==
    (~args.dry_run /\ pc \in ConfigurationError) =>
        /\ ~outdir
        /\ log_file_path = None
        /\ files = {}

(* C8, amended: when a run of nbr that writes ends with a configuration    *)
(* error, the output directory has been created and the run log            *)
(* analysis.log opened, and nothing else exists: no counts table, no       *)
(* result dump, no figure and no summary.                                  *)
C8_OnlyRunLogWritten ==
    (~args.dry_run /\ pc \in ConfigurationError) =>
        /\ outdir
        /\ log_file_path = "analysis.log"
        /\ files = {"analysis.log"}
        /\ files \cap OutputFiles = {}
        /\ \A i \in DOMAIN events : events[i][1] \notin {"dump", "savefig"}

C8_Witness ==
    /\ ~args.dry_run
    /\ pc = "AssertionError_groups"
    /\ outdir
    /\ files = {"analysis.log"}

(* C9: when full-order analysis is asked for and the counts table has      *)
(* fewer than 4 'pos' columns, nbr aborts with an error before the effects *)
(* of any order are evaluated; in first-order mode the number of position  *)
(* columns is not checked and the order-1 evaluation runs for any count.   *)
C9_PositionsCheck ==
    /\ (~args.first_order /\ table.npos < 4 /\ pc \notin {"start", "load"}) =>
         /\ pc = "ValueError_positions"
         /\ fit_calls = <<>>
         /\ chisq_calls = <<>>
         /\ events = <<>>
         /\ order = 0
    /\ pc = "ValueError_positions" => (~args.first_order /\ table.npos # 4)
    /\ args.first_order =>
         /\ pc # "ValueError_positions"
         /\ (pc \notin {"start", "load"}) => Len(positions) = table.npos
         /\ (Evaluated >= 1) => fit_calls = combinations(positions, 1)
         /\ (pc = "done") => Evaluated = 1 /\ Len(fit_calls) = table.npos

C9_Witness ==
    /\ ~args.first_order
    /\ table.npos = 3
    /\ pc = "ValueError_positions"
    /\ fit_calls = <<>>

\* get_position_effects has been called with the table and label of the run
Called == pc \notin {"start", "load", "group", "analyse", "ValueError_positions", "exit_no_strand"}

(* C10: get_position_effects called with a group label whose column does   *)
(* not have exactly two distinct values fails before the first combination *)
(* is evaluated: the external fit is never called and no result mapping,   *)
(* not even a partial one, is returned.  With exactly two distinct values, *)
(* or without a group label, the check never fails.                        *)
C10_GroupCheck ==
    Called =>
        /\ (group_label # None /\ counts_table.gcol = group_label
              /\ Cardinality(counts_table.gvals) # 2) =>
             /\ pc = "AssertionError_groups"
             /\ fit_calls = <<>>
             /\ chisq_calls = <<>>
             /\ results = <<>>
             /\ summary = <<>>
             /\ max_results = <<>>
        /\ (group_label = None \/ Cardinality(counts_table.gvals) = 2) =>
             pc # "AssertionError_groups"

C10_Witness ==
    /\ pc = "AssertionError_groups"
    /\ group_label = "group"
    /\ Cardinality(counts_table.gvals) = 3
    /\ fit_calls = <<>>
    /\ results = <<>>

Called3 == pc # "call" /\ call.fn = "get_resized_array_coordinates3"

\* the call the claim is about: 4 positions and their 4 triples, handed over
\* in any order
FullCall3 ==
    /\ Called3
    /\ Len(call.positions) = 4
    /\ Range(call.position_set) = Range(combinations(call.positions, 3))
    /\ Len(call.position_set) = 4

\* how many members of S are below t, as Python compares tuples
RankIn(t, S) == Cardinality({ u \in S : TupleLess(u, t) })

(* C11: given 4 positions and their 4 triples, in whatever order they are  *)
(* handed over, get_resized_array_coordinates3 returns a mapping that      *)
(* gives the triples, in ascending order of the tuples themselves, the     *)
(* cells (0,0), (0,1), (1,0), (1,1): a bijection onto the 2 x 2 grid.      *)
C11_Coordinates3Sorted ==
    FullCall3 =>
        LET mapping == call.ret.mapping
            S       == Range(call.position_set)
        IN  /\ pc = "returned"
            /\ DOMAIN mapping = S
            /\ \A t \in S : mapping[t] = <<RankIn(t, S) \div 2, RankIn(t, S) % 2>>
            /\ { mapping[t] : t \in S } = (0..1) \X (0..1)
            /\ \A t, u \in S : mapping[t] = mapping[u] => t = u

C11_Witness ==
    /\ FullCall3
    /\ pc = "returned"
    /\ call.positions = <<3, 1, 4, 2>>
    /\ call.position_set = << <<1, 4, 2>>, <<3, 1, 4>>, <<3, 4, 2>>, <<3, 1, 2>> >>
    /\ call.ret.mapping[<<1, 4, 2>>] = <<0, 0>>
    /\ call.ret.mapping[<<3, 1, 2>>] = <<0, 1>>
    /\ call.ret.mapping[<<3, 1, 4>>] = <<1, 0>>
    /\ call.ret.mapping[<<3, 4, 2>>] = <<1, 1>>

(* C12: get_resized_array_coordinates3 handed a number of distinct triples *)
(* other than 4 (the 1 triple of 3 positions, the 10 triples of 5          *)
(* positions, none at all) ends in an error and returns no mapping; only   *)
(* with exactly 4 distinct triples does it return one.                     *)
C12_Coordinates3OnlyFour ==
    Called3 =>
        LET n == Cardinality(Range(call.position_set))
        IN  /\ n # 4 => /\ pc = "ValueError_reshape"
                        /\ call.ret.raised = "ValueError_reshape"
                        /\ call.ret.mapping = <<>>
            /\ n = 4 => /\ pc = "returned"
                        /\ Cardinality(DOMAIN call.ret.mapping) = 4
            /\ pc = "returned" => n = 4

C12_Witness ==
    /\ Called3
    /\ Len(call.positions) = 5
    /\ Len(call.position_set) = 10
    /\ pc = "ValueError_reshape"
    /\ call.ret.mapping = <<>>

ReturnedFreq == pc = "returned" /\ call.fn = "as_freq_matrix"

\* the sum over the four symbols of the numerators of a column
ColumnSum(p, c) == p[0][c].num + p[1][c].num + p[2][c].num + p[3][c].num

\* a column of quotients that adds up to 1: one non-zero divisor, which the
\* numerators add up to
SumsToOne(p, c, divisor) ==
    /\ divisor # 0
    /\ \A i \in 0..3 : p[i][c].den = divisor
    /\ ColumnSum(p, c) = divisor

(* C13, as stated: for every matrix of entries 0..3 and every pseudocount  *)
(* >= 0 each column of as_freq_matrix sums to 1: the four counts plus      *)
(* pseudocount add up to the divisor N + 4 * pseudocount, and that divisor *)
(* is not zero; with pseudocount > 0 every entry is positive.              *)
C13_ColumnsSumToOne ==
    ReturnedFreq =>
        LET N       == call.data.shape[1]
            divisor == N + 4 * call.pseudocount
        IN  /\ divisor # 0
            /\ \A c \in 1..call.data.shape[2] : SumsToOne(call.ret, c, divisor)
            /\ call.pseudocount > 0 =>
                 \A i \in 0..3 : \A c \in 1..call.data.shape[2] : call.ret[i][c].num > 0

(* C13, amended: for every matrix of entries 0..3 with at least one row,   *)
(* or with a pseudocount > 0, each column of as_freq_matrix sums to 1: the *)
(* four counts plus pseudocount add up to the divisor N + 4 * pseudocount, *)
(* which is not zero; with pseudocount > 0 every entry is positive.  For a *)
(* matrix without rows and pseudocount 0 the divisor is 0 and every entry  *)
(* is 0 / 0.                                                               *)
C13_ColumnsSumToOneGivenRows ==
    ReturnedFreq =>
        LET N       == call.data.shape[1]
            P       == call.data.shape[2]
            divisor == N + 4 * call.pseudocount
        IN  /\ DOMAIN call.ret = 0..3
            /\ \A i \in 0..3 : DOMAIN call.ret[i] = 1..P
            /\ (N >= 1 \/ call.pseudocount > 0) =>
                 /\ divisor # 0
                 /\ \A c \in 1..P : SumsToOne(call.ret, c, divisor)
            /\ call.pseudocount > 0 =>
                 \A i \in 0..3 : \A c \in 1..P : call.ret[i][c].num > 0 /\ call.ret[i][c].den > 0
            /\ (N = 0 /\ call.pseudocount = 0) =>
                 \A i \in 0..3 : \A c \in 1..P : call.ret[i][c] = Quotient(0, 0)

C13_Witness ==
    /\ ReturnedFreq
    /\ call.data.shape = <<3, 1>>
    /\ call.data.rows = << <<0>>, <<0>>, <<2>> >>
    /\ call.pseudocount = 1
    /\ call.ret[0][1] = Quotient(3, 7)
    /\ call.ret[1][1] = Quotient(1, 7)
    /\ call.ret[2][1] = Quotient(2, 7)
    /\ call.ret[3][1] = Quotient(1, 7)

\* the slot of the per-position arrays that belongs to a position: its
\* index in the position list, moved up by one from the focal slot on
Slot(position) ==
    LET raw == Index(positions, position)
    IN  IF raw >= (Len(positions) + 1) \div 2 THEN raw + 1 ELSE raw

Slots(position_set) == { Slot(position_set[j]) : j \in DOMAIN position_set }

FocalSlot == (Len(positions) + 1) \div 2

\* a pass of the loop of get_two_position_fig or get_three_position_fig
SweepStep ==
    /\ pc = "fig_loop"
    /\ fig.k \in {2, 3}
    /\ pc' \in {"fig_loop", "ValueError_shape"}

\* the last position set processed that holds a position
LastWith(position) ==
    fig.position_sets[Max({ n \in 1..fig.i : position \in Range(fig.position_sets[n]) })]

(* C14: in the sweep of order 2 or 3 each pass writes the shared           *)
(* position_re array only at the adjusted slots of the members of its own  *)
(* combination, which it sets to that combination's relative entropy, and  *)
(* leaves every other slot, the focal one included, as it was; after the   *)
(* sweep each slot other than the focal one holds the relative entropy of  *)
(* the last combination processed that contains its position, and the      *)
(* focal slot holds 0.                                                     *)
C14_SharedPositionRe ==
    /\ [][SweepStep =>
            LET motif == fig.position_sets[fig.i + 1]
            IN  /\ fig'.motif = motif
                /\ FocalSlot \notin Slots(motif)
                /\ Len(fig'.position_re) = Len(fig.position_re)
                /\ \A s \in 0..Len(positions) :
                     fig'.position_re[s + 1] = IF s \in Slots(motif)
                                               THEN results[motif].rel_entropy
                                               ELSE fig.position_re[s + 1]]_vars
    /\ []((pc = "fig_loop" /\ fig.k \in {2, 3} /\ fig.i = Len(fig.position_sets)) =>
            /\ fig.position_re[FocalSlot + 1] = 0
            /\ \A j \in DOMAIN positions :
                 fig.position_re[Slot(positions[j]) + 1] = results[LastWith(positions[j])].rel_entropy)

C14_Witness ==
    /\ pc = "fig_loop"
    /\ fig.k = 2
    /\ fig.i = 6
    /\ fig.position_re[1] = results[<<1, 4>>].rel_entropy
    /\ fig.position_re[2] = results[<<2, 4>>].rel_entropy
    /\ fig.position_re[3] = 0
    /\ fig.position_re[4] = results[<<3, 4>>].rel_entropy
    /\ fig.position_re[5] = results[<<3, 4>>].rel_entropy
    /\ results[<<1, 4>>].rel_entropy # results[<<3, 4>>].rel_entropy

\* the columns of a rets array that are not all zero, as 0-based slots
Populated(rets) == { s \in 0..(Len(rets) - 1) : rets[s + 1] # Empty }

\* the calls of get_re_char_heights the figure builder has made
HeightCalls == IF fig.k = 0 THEN <<>> ELSE fig.heights

\* the figure builder at work is the one of the current order
Building == fig.k >= 1 /\ fig.k = order /\ pc \in {"fig_loop", "ValueError_shape"}

(* C15, as stated: at every order k = 1..4 every rets array handed to the  *)
(* height conversion has 4^k rows and P + 1 columns and is populated only  *)
(* in the columns at the adjusted slots of the members of one combination, *)
(* the one it is handed over for.                                          *)
C15_OwnColumnsAtEveryOrder ==
    \A n \in DOMAIN HeightCalls :
        /\ HeightCalls[n].shape = <<Pow(4, fig.k), Len(positions) + 1>>
        /\ \E c \in Range(fig.position_sets) : Populated(HeightCalls[n].rets) = Slots(c)

(* C15, amended: at every order k = 2..4 the height conversion is called   *)
(* for every combination, with a rets array of 4^k rows and P + 1 columns  *)
(* that is populated only in the columns at the adjusted slots of that     *)
(* combination's own members, all other columns, the focal one included,   *)
(* being zero.  At order 1 it is called once, after the last position,     *)
(* with one array of 4 rows and P + 1 columns in which the column of every *)
(* position is populated and only the focal column is zero.                *)
C15_OwnColumnsAboveOrderOne ==
    /\ (Building /\ fig.k >= 2) =>
         /\ Len(HeightCalls) = fig.i
         /\ \A n \in DOMAIN HeightCalls :
              /\ HeightCalls[n].motif = fig.position_sets[n]
              /\ HeightCalls[n].shape = <<Pow(4, fig.k), Len(positions) + 1>>
              /\ Len(HeightCalls[n].rets) = Len(positions) + 1
              /\ Populated(HeightCalls[n].rets) = Slots(fig.position_sets[n])
              /\ Cardinality(Populated(HeightCalls[n].rets)) = fig.k
              /\ FocalSlot \notin Populated(HeightCalls[n].rets)
    /\ (Building /\ fig.k = 1) => HeightCalls = <<>>
    /\ (fig.k = 1 /\ pc \notin {"fig_loop", "ValueError_shape"}) =>
         /\ Len(HeightCalls) = 1
         /\ HeightCalls[1].shape = <<4, Len(positions) + 1>>
         /\ Populated(HeightCalls[1].rets) = (0..Len(positions)) \ {FocalSlot}

C15_Witness ==
    /\ Building
    /\ fig.k = 3
    /\ fig.i = 2
    /\ HeightCalls[2].motif = <<1, 2, 4>>
    /\ HeightCalls[2].shape = <<64, 5>>
    /\ Populated(HeightCalls[2].rets) = {0, 1, 4}
    /\ Populated(HeightCalls[1].rets) = {0, 1, 3}

\* how many members of S are below n
Below(n, S) == Cardinality({ m \in S : m < n })

\* the cell of a pair in the array before compaction: row the index of its
\* second member, column the index of its first
RawRow(pair) == Index(call.positions, pair[2])
RawCol(pair) == Index(call.positions, pair[1])

(* C16: for a list of P >= 2 distinct positions and all C(P,2) pairs,      *)
(* get_resized_array_coordinates2 puts the pair (positions[i],             *)
(* positions[j]), i < j, at (row, col) = (j - 1, i), a lower triangle of   *)
(* P - 1 rows and columns; and for any non-empty list of pairs, dropping   *)
(* the empty rows and then the empty columns gives the mapping that        *)
(* dropping the empty rows and the empty columns of the original array at  *)
(* once gives.                                                             *)
C16_LowerTriangle ==
    Returned2 =>
        LET mapping == call.ret
            pairs   == Range(call.motifs)
            rows    == { RawRow(m) : m \in pairs }
            cols    == { RawCol(m) : m \in pairs }
            P       == Len(call.positions)
        IN  /\ DOMAIN mapping = pairs
            /\ \A m \in pairs : mapping[m] = <<Below(RawRow(m), rows), Below(RawCol(m), cols)>>
            /\ call.motifs = combinations(call.positions, 2) =>
                 /\ Cardinality(pairs) = (P * (P - 1)) \div 2
                 /\ \A i, j \in 0..(P - 1) :
                      i < j => mapping[<<call.positions[i + 1], call.positions[j + 1]>>] = <<j - 1, i>>
                 /\ \A m \in pairs : mapping[m][2] <= mapping[m][1] /\ mapping[m][1] <= P - 2

C16_Witness ==
    /\ Returned2
    /\ call.positions = <<3, 1, 2>>
    /\ call.motifs = << <<3, 1>>, <<3, 2>>, <<1, 2>> >>
    /\ call.ret[<<3, 1>>] = <<0, 0>>
    /\ call.ret[<<3, 2>>] = <<1, 0>>
    /\ call.ret[<<1, 2>>] = <<1, 1>>

\* the panels of the grid of the figure being built
Panels == (0..(fig.xdim - 1)) \X (0..(fig.ydim - 1))

\* the figure of pairs or of triples is being built, or has been
Trellis(k) == fig.k = k /\ Len(positions) = 4

(* C17: in get_two_position_fig for 4 positions the panels blanked, the    *)
(* cells (i, j) with i < xdim - 1 and i < j < ydim, are exactly the cells  *)
(* of the xdim x ydim grid that get_resized_array_coordinates2 gives to no *)
(* pair, and every pair is drawn in a panel that is not blanked; in        *)
(* get_three_position_fig a panel is blanked iff no triple is mapped to    *)
(* it.                                                                     *)
C17_BlankedPanels ==
    /\ Trellis(2) =>
         /\ fig.array_coords = get_resized_array_coordinates2(positions, fig.position_sets)
         /\ fig.blanked = { c \in Panels : c[1] < fig.xdim - 1 /\ c[1] < c[2] /\ c[2] < fig.ydim }
         /\ fig.blanked = Panels \ Coords(fig.array_coords)
         /\ Coords(fig.array_coords) \subseteq Panels
         /\ fig.drawn \cap fig.blanked = {}
         /\ fig.drawn = { fig.array_coords[fig.position_sets[n]] : n \in 1..fig.i }
    /\ Trellis(3) =>
         /\ fig.array_coords = get_resized_array_coordinates3(positions, fig.position_sets).mapping
         /\ \A c \in Panels : c \in fig.blanked <=> c \notin Coords(fig.array_coords)
         /\ fig.drawn \cap fig.blanked = {}
         /\ fig.drawn = { fig.array_coords[fig.position_sets[n]] : n \in 1..fig.i }

C17_Witness ==
    /\ Trellis(2)
    /\ pc = "fig_loop"
    /\ fig.i = 6
    /\ fig.xdim = 3
    /\ fig.ydim = 3
    /\ fig.blanked = { <<0, 1>>, <<0, 2>>, <<1, 2>> }
    /\ fig.drawn = { <<0, 0>>, <<1, 0>>, <<1, 1>>, <<2, 0>>, <<2, 1>>, <<2, 2>> }

===========================================================================
